---- MODULE Spec2Model ----
(***************************************************************************)
(* Field normalisation and schedule reconstruction of                      *)
(* dataset/data-processing.py: clean_quotes, parse_time_range,             *)
(* transform_hours_to_schedule, transform_closed_on_to_opening_day and     *)
(* parse_coordinates.                                                      *)
(*                                                                         *)
(* Python text is a sequence of one-character strings.  A CSV cell is      *)
(* either NaN or text.  json.loads is a library call: a cell that holds a  *)
(* JSON document is given by the value it decodes to.                      *)
(***************************************************************************)
EXTENDS Integers, Sequences, FiniteSets, TLC

VARIABLES
    fn,             \* the function the current call applies
    pc,             \* "call": arguments bound, body not run; "done": returned
    text,           \* clean_quotes: the argument followed by each result
    time_str,       \* parse_time_range: the argument
    time_form,      \* how time_str was written (hour, minute, meridiem per side)
    time_obj,       \* parse_time_range: the outcome
    hours_str,      \* transform_hours_to_schedule: the argument
    schedule,       \* transform_hours_to_schedule: the outcome
    closed_on_str,  \* transform_closed_on_to_opening_day: the argument
    opening_day,    \* transform_closed_on_to_opening_day: the result
    coord_str,      \* parse_coordinates: the argument
    coords          \* parse_coordinates: the outcome

vars == <<fn, pc, text, time_str, time_form, time_obj, hours_str, schedule,
          closed_on_str, opening_day, coord_str, coords>>

(***************************************************************************)
(* Bounds of the model.                                                    *)
(***************************************************************************)
MaxTextLen == 4     \* longest text handed to clean_quotes
MaxCalls == 2       \* clean_quotes is applied at most this many times in a row
MaxEntries == 3     \* longest decoded hours list
MaxExtra == 1       \* entries of a closed_on list beside the day names in week order

(***************************************************************************)
(* Text primitives (str methods of Python).                                *)
(***************************************************************************)
DQ == "\""
SQ == "'"

IsSpace(c) == c \in {" ", "\t", "\n"}

RECURSIVE LStrip(_)
LStrip(s) == IF s # <<>> /\ IsSpace(Head(s)) THEN LStrip(Tail(s)) ELSE s

RECURSIVE RStrip(_)
RStrip(s) ==
    IF s # <<>> /\ IsSpace(s[Len(s)]) THEN RStrip(SubSeq(s, 1, Len(s) - 1)) ELSE s

\* str.strip()
Strip(s) == RStrip(LStrip(s))

\* str.startswith / str.endswith with a one-character argument
StartsWith(s, c) == s # <<>> /\ s[1] = c
EndsWith(s, c) == s # <<>> /\ s[Len(s)] = c

\* needle in s
Contains(s, needle) ==
    \E i \in 1..(Len(s) - Len(needle) + 1) :
        SubSeq(s, i, i + Len(needle) - 1) = needle

(***************************************************************************)
(* Python values: t is the type, s the text of a str (and str(x) of any    *)
(* other value), n the length of a list.                                   *)
(***************************************************************************)
PyVal(t, s, n) == [t |-> t, s |-> s, n |-> n]
NaN == PyVal("nan", <<"n", "a", "n">>, 0)
Null == PyVal("null", <<"N", "o", "n", "e">>, 0)
Str(s) == PyVal("str", s, 0)

\* pd.isna(x) or x == '' as an if-condition: a list makes pd.isna return an
\* array, whose truth value is an error when it holds two or more elements
IsNaRaises(v) == v.t = "list" /\ v.n >= 2
IsBlank(v) == v.t \in {"nan", "null"} \/ (v.t = "str" /\ v.s = <<>>)

(***************************************************************************)
(* clean_quotes                                                            *)
(***************************************************************************)
clean_quotes(cell) ==
    IF IsBlank(cell) THEN cell
    ELSE LET t == Strip(cell.s) IN
         IF StartsWith(t, DQ) /\ EndsWith(t, DQ) /\ Len(t) >= 2
         THEN Str(SubSeq(t, 2, Len(t) - 1))
         ELSE IF StartsWith(t, SQ) /\ EndsWith(t, SQ) /\ Len(t) >= 2
         THEN Str(SubSeq(t, 2, Len(t) - 1))
         ELSE Str(t)

QuoteAlphabet == {DQ, SQ, " ", "a"}

QuoteTexts == UNION {[1..n -> QuoteAlphabet] : n \in 0..MaxTextLen}

QuoteCells == {NaN} \cup {Str(s) : s \in QuoteTexts}


(***************************************************************************)
(* parse_time_range                                                        *)
(***************************************************************************)
DigitChars == <<"0", "1", "2", "3", "4", "5", "6", "7", "8", "9">>
UpperChars == <<"A", "B", "C", "D", "E", "F", "G", "H", "I", "J", "K", "L", "M",
                "N", "O", "P", "Q", "R", "S", "T", "U", "V", "W", "X", "Y", "Z">>
LowerChars == <<"a", "b", "c", "d", "e", "f", "g", "h", "i", "j", "k", "l", "m",
                "n", "o", "p", "q", "r", "s", "t", "u", "v", "w", "x", "y", "z">>

IsDigit(c) == \E i \in 1..10 : DigitChars[i] = c
DigitVal(c) == (CHOOSE i \in 1..10 : DigitChars[i] = c) - 1

LowerChar(c) ==
    IF \E i \in 1..26 : UpperChars[i] = c
    THEN LowerChars[CHOOSE i \in 1..26 : UpperChars[i] = c]
    ELSE c

\* str.lower()
Lower(s) == [i \in 1..Len(s) |-> LowerChar(s[i])]

\* int(digits)
RECURSIVE IntOf(_)
IntOf(d) ==
    IF d = <<>> THEN 0
    ELSE 10 * IntOf(SubSeq(d, 1, Len(d) - 1)) + DigitVal(d[Len(d)])

RECURSIVE Decimal(_)
Decimal(n) ==
    IF n < 10 THEN <<DigitChars[n + 1]>>
    ELSE Decimal(n \div 10) \o <<DigitChars[(n % 10) + 1]>>

\* f"{n:02d}": at least two digits, never cut
Format02d(n) == IF n < 10 THEN <<"0">> \o Decimal(n) ELSE Decimal(n)

Marker24Long == <<"O", "p", "e", "n", " ", "2", "4", " ", "h", "o", "u", "r", "s">>
Marker24 == <<"2", "4", " ", "h", "o", "u", "r", "s">>
MarkerClosed == <<"C", "l", "o", "s", "e", "d">>

\* The pieces of the pattern of line 89, matched at position j of s; each
\* gives the number of characters it takes (0: the optional piece is absent).
\* Every piece is greedy, and what follows a piece in the pattern can never
\* start with a character the piece could give back, so the greedy choice is
\* the only one the search tries with success.
HourLen(s, j) ==
    IF j <= Len(s) /\ IsDigit(s[j])
    THEN (IF j + 1 <= Len(s) /\ IsDigit(s[j + 1]) THEN 2 ELSE 1)
    ELSE 0

MinuteLen(s, j) ==
    IF j + 2 <= Len(s) /\ s[j] = ":" /\ IsDigit(s[j + 1]) /\ IsDigit(s[j + 2])
    THEN 3 ELSE 0

RECURSIVE SkipSpaces(_, _)
SkipSpaces(s, j) == IF j <= Len(s) /\ IsSpace(s[j]) THEN SkipSpaces(s, j + 1) ELSE j

AmPmLen(s, j) ==
    IF j + 1 <= Len(s) /\ LowerChar(s[j]) \in {"a", "p"} /\ LowerChar(s[j + 1]) = "m"
    THEN 2 ELSE 0

\* hour(:minute)? \s* (am|pm)? at position j: the three groups and the
\* position after them
Side(s, j) ==
    LET h == HourLen(s, j)
        m == MinuteLen(s, j + h)
        a0 == SkipSpaces(s, j + h + m)
        a == AmPmLen(s, a0)
    IN [ok |-> h > 0,
        hour |-> SubSeq(s, j, j + h - 1),
        minute |-> SubSeq(s, j + h + 1, j + h + m - 1),
        ampm |-> SubSeq(s, a0, a0 + a - 1),
        next |-> a0 + a]

NoMatch == [ok |-> FALSE, g1 |-> <<>>, g2 |-> <<>>, g3 |-> <<>>,
            g4 |-> <<>>, g5 |-> <<>>, g6 |-> <<>>]

\* the pattern matched at position i (an absent group is the empty text)
MatchAt(s, i) ==
    LET a == Side(s, i)
        d == SkipSpaces(s, a.next)
        b == Side(s, SkipSpaces(s, d + 1))
    IN IF a.ok /\ d <= Len(s) /\ s[d] = "-" /\ b.ok
       THEN [ok |-> TRUE, g1 |-> a.hour, g2 |-> a.minute, g3 |-> a.ampm,
             g4 |-> b.hour, g5 |-> b.minute, g6 |-> b.ampm]
       ELSE NoMatch

\* re.search: the match at the leftmost position that has one
RECURSIVE SearchFrom(_, _)
SearchFrom(s, i) ==
    IF i > Len(s) THEN NoMatch
    ELSE IF MatchAt(s, i).ok THEN MatchAt(s, i)
    ELSE SearchFrom(s, i + 1)

ReSearch(s) == SearchFrom(s, 1)

AM == <<"a", "m">>
PM == <<"p", "m">>

\* the start side keeps its own meridiem
InferStartAmPmNever(start_ampm, end_ampm) == start_ampm

\* lines 103-106
InferStartAmPm(start_ampm, end_ampm) ==
    IF start_ampm = <<>> /\ end_ampm # <<>> THEN end_ampm ELSE start_ampm

\* lines 109-117
To24Hour(hour, ampm) ==
    IF ampm = PM /\ hour # 12 THEN hour + 12
    ELSE IF ampm = AM /\ hour = 12 THEN 0
    ELSE hour

\* lines 119-121
MidnightEnd(end_hour, end_ampm) == IF end_hour = 12 /\ end_ampm = AM THEN 0 ELSE end_hour

Returned(val) == [exc |-> "", val |-> val]
Raised(exc, val) == [exc |-> exc, val |-> val]

NoTime == [none |-> TRUE, start |-> <<>>, end |-> <<>>, note |-> <<>>]
TimeObj(start, end, note) == [none |-> FALSE, start |-> start, end |-> end, note |-> note]

\* lines 92-126: the interval of a match, None without one
TimeOfMatch(match) ==
    IF ~match.ok THEN Returned(NoTime)
    ELSE LET start_min == IF match.g2 # <<>> THEN IntOf(match.g2) ELSE 0
             end_min == IF match.g5 # <<>> THEN IntOf(match.g5) ELSE 0
             end_ampm == Lower(match.g6)
             start_ampm == InferStartAmPm(Lower(match.g3), end_ampm)
             start_hour == To24Hour(IntOf(match.g1), start_ampm)
             end_hour == MidnightEnd(To24Hour(IntOf(match.g4), end_ampm), end_ampm)
         IN Returned(TimeObj(
                Format02d(start_hour) \o <<":">> \o Format02d(start_min),
                Format02d(end_hour) \o <<":">> \o Format02d(end_min),
                <<>>))

\* lines 78-126, on the stripped text
ParseText(s) ==
    IF Contains(s, Marker24Long) \/ Contains(s, Marker24)
    THEN Returned(TimeObj(<<"0", "0", ":", "0", "0">>,
                          <<"2", "3", ":", "5", "9">>, Marker24Long))
    ELSE IF Contains(s, MarkerClosed) THEN Returned(NoTime)
    ELSE TimeOfMatch(ReSearch(s))

parse_time_range(v) ==
    IF IsNaRaises(v) THEN Raised("ValueError", NoTime)
    ELSE IF IsBlank(v) THEN Returned(NoTime)
    ELSE ParseText(Strip(v.s))

(***************************************************************************)
(* transform_hours_to_schedule                                             *)
(***************************************************************************)
Monday == <<"M", "o", "n", "d", "a", "y">>
Tuesday == <<"T", "u", "e", "s", "d", "a", "y">>
Wednesday == <<"W", "e", "d", "n", "e", "s", "d", "a", "y">>
Thursday == <<"T", "h", "u", "r", "s", "d", "a", "y">>
Friday == <<"F", "r", "i", "d", "a", "y">>
Saturday == <<"S", "a", "t", "u", "r", "d", "a", "y">>
Sunday == <<"S", "u", "n", "d", "a", "y">>

mon == <<"m", "o", "n">>
tue == <<"t", "u", "e">>
wed == <<"w", "e", "d">>
thu == <<"t", "h", "u">>
fri == <<"f", "r", "i">>
sat == <<"s", "a", "t">>
sun == <<"s", "u", "n">>

DAY_MAPPING ==
    (Monday :> mon) @@ (Tuesday :> tue) @@ (Wednesday :> wed) @@ (Thursday :> thu)
    @@ (Friday :> fri) @@ (Saturday :> sat) @@ (Sunday :> sun)

ALL_DAYS == <<Monday, Tuesday, Wednesday, Thursday, Friday, Saturday, Sunday>>
ALL_DAYS_ABBR == <<mon, tue, wed, thu, fri, sat, sun>>

InAbbr(x) == \E i \in 1..Len(ALL_DAYS_ABBR) : ALL_DAYS_ABBR[i] = x

\* ALL_DAYS_ABBR.index(x) if x in ALL_DAYS_ABBR else 999
AbbrIndex(x) ==
    IF InAbbr(x)
    THEN (CHOOSE i \in 1..Len(ALL_DAYS_ABBR) :
              ALL_DAYS_ABBR[i] = x /\ \A k \in 1..(i - 1) : ALL_DAYS_ABBR[k] # x) - 1
    ELSE 999

\* s[:3]
Prefix3(s) == SubSeq(s, 1, IF Len(s) < 3 THEN Len(s) ELSE 3)

\* DAY_MAPPING.get(day_name, day_name.lower()[:3]) for a str day_name
DayAbbr(day_name) ==
    IF day_name \in DOMAIN DAY_MAPPING THEN DAY_MAPPING[day_name]
    ELSE Prefix3(Lower(day_name))

\* json.dumps of a text made of letters, digits, blanks and colons
JsonText(s) == <<DQ>> \o s \o <<DQ>>

\* json.dumps(time_obj, sort_keys=True)
JsonDumpsTime(t) ==
    <<"{">> \o JsonText(<<"e", "n", "d">>) \o <<":", " ">> \o JsonText(t.end)
    \o (IF t.note # <<>>
        THEN <<",", " ">> \o JsonText(<<"n", "o", "t", "e">>) \o <<":", " ">>
             \o JsonText(t.note)
        ELSE <<>>)
    \o <<",", " ">> \o JsonText(<<"s", "t", "a", "r", "t">>) \o <<":", " ">>
    \o JsonText(t.start) \o <<"}">>

\* sorted(): stable, ascending in .key
RECURSIVE StableSort(_)
StableSort(p) ==
    IF p = <<>> THEN <<>>
    ELSE LET front == StableSort(SubSeq(p, 1, Len(p) - 1))
             x == p[Len(p)]
             k == Cardinality({i \in 1..Len(front) : front[i].key <= x.key})
         IN SubSeq(front, 1, k) \o <<x>> \o SubSeq(front, k + 1, Len(front))

\* the days left in the order they were appended
SortDaysSkipped(days) == days

\* line 183
SortDays(days) ==
    LET p == StableSort([i \in 1..Len(days) |-> [key |-> AbbrIndex(days[i]), item |-> days[i]]])
    IN [i \in 1..Len(p) |-> p[i].item]

\* line 190
FirstDayKey(x) ==
    IF x.days # <<>> /\ InAbbr(x.days[1]) THEN AbbrIndex(x.days[1]) ELSE 999

\* the groups left in the order of schedule_map
SortScheduleSkipped(entries) == entries

SortSchedule(entries) ==
    LET p == StableSort([i \in 1..Len(entries) |->
                            [key |-> FirstDayKey(entries[i]), item |-> entries[i]]])
    IN [i \in 1..Len(p) |-> p[i].item]


\* time_key in schedule_map
HasKey(schedule_map, time_key) ==
    \E i \in 1..Len(schedule_map) : schedule_map[i].key = time_key

KeyIndex(schedule_map, time_key) ==
    CHOOSE i \in 1..Len(schedule_map) : schedule_map[i].key = time_key

\* every day in a group of its own
AddDayNoGrouping(schedule_map, time_obj_, day_abbr) ==
    Append(schedule_map,
           [key |-> JsonDumpsTime(time_obj_), times |-> <<time_obj_>>, days |-> <<day_abbr>>])

\* lines 166-177: schedule_map, a dict, as the sequence of its items in
\* insertion order
AddDay(schedule_map, time_obj_, day_abbr) ==
    LET time_key == JsonDumpsTime(time_obj_)
        m == IF HasKey(schedule_map, time_key) THEN schedule_map
             ELSE Append(schedule_map,
                         [key |-> time_key, times |-> <<time_obj_>>, days |-> <<>>])
        i == KeyIndex(m, time_key)
    IN [m EXCEPT ![i].days = Append(@, day_abbr)]

\* One element of the decoded list: a dict (with or without 'day' and
\* 'times') or anything else.  times_list is kept as its elements when it is
\* a list.
DayEntry(day, times) ==
    [isdict |-> TRUE, has_day |-> TRUE, has_times |-> TRUE, day |-> day,
     times_islist |-> TRUE, times |-> times]

Skipped(day_entry) ==
    \/ ~day_entry.isdict \/ ~day_entry.has_day \/ ~day_entry.has_times
    \/ ~day_entry.times_islist \/ day_entry.times = <<>>

\* lines 163-177: the day of an entry whose first time text gave parsed
AddParsed(day_entry, schedule_map, parsed) ==
    IF parsed.exc # "" THEN Raised(parsed.exc, <<>>)
    ELSE IF parsed.val.none THEN Returned(schedule_map)
    ELSE IF day_entry.day.t # "str" THEN Raised("AttributeError", <<>>)
    ELSE Returned(AddDay(schedule_map, parsed.val, DayAbbr(day_entry.day.s)))

\* lines 150-177: one iteration of the loop, giving the schedule_map after it
TakeDay(day_entry, schedule_map) ==
    IF Skipped(day_entry) THEN Returned(schedule_map)
    ELSE AddParsed(day_entry, schedule_map, parse_time_range(day_entry.times[1]))

\* lines 149-177: the loop over hours_data; an exception ends it
RECURSIVE GroupDays(_, _)
RECURSIVE NextDay(_, _)
GroupDays(hours_data, schedule_map) ==
    IF hours_data = <<>> THEN Returned(schedule_map)
    ELSE NextDay(Tail(hours_data), TakeDay(Head(hours_data), schedule_map))

NextDay(hours_data, step) ==
    IF step.exc # "" THEN step ELSE GroupDays(hours_data, step.val)

\* lines 180-190
BuildSchedule(schedule_map) ==
    SortSchedule([i \in 1..Len(schedule_map) |->
                     [days |-> SortDays(schedule_map[i].days),
                      times |-> schedule_map[i].times]])

\* lines 180-192, reached when the loop raised nothing
ReturnSchedule(grouped) ==
    IF grouped.exc # "" THEN grouped ELSE Returned(BuildSchedule(grouped.val))

\* An hours cell: NaN, a text json.loads rejects (or that is '' or '[]'),
\* or a JSON document given by what it decodes to.
HoursCell(kind, s, islist, items) ==
    [kind |-> kind, s |-> s, islist |-> islist, items |-> items]

transform_hours_to_schedule(hours) ==
    IF hours.kind = "nan" \/ (hours.kind = "text" /\ hours.s \in {<<>>, <<"[", "]">>})
    THEN Returned(<<>>)
    ELSE IF hours.kind = "text" THEN Returned(<<>>)
    ELSE IF ~hours.islist THEN Returned(<<>>)
    ELSE ReturnSchedule(GroupDays(hours.items, <<>>))


(***************************************************************************)
(* transform_closed_on_to_opening_day                                      *)
(***************************************************************************)
OpenAllDays == <<"O", "p", "e", "n", " ", "A", "l", "l", " ", "D", "a", "y", "s">>

\* A closed_on cell: NaN, a text json.loads rejects, or a JSON document
\* given by what it decodes to (items: the elements of a decoded list).
ClosedCell(kind, s, islist, items) ==
    [kind |-> kind, s |-> s, islist |-> islist, items |-> items]

\* day in DAY_MAPPING raises TypeError for an unhashable day
Unhashable(v) == v.t \in {"list", "obj"}

InMapping(v) == v.t = "str" /\ v.s \in DOMAIN DAY_MAPPING

\* line 215
ClosedAbbr(closed_days) ==
    LET kept == SelectSeq(closed_days, InMapping)
    IN [i \in 1..Len(kept) |-> DayAbbr(kept[i].s)]

\* lines 217-218
OpeningDays(closed_abbr) ==
    LET isOpen(day) == \A i \in 1..Len(closed_abbr) : closed_abbr[i] # day
        opening_days == SelectSeq(ALL_DAYS_ABBR, isOpen)
    IN IF opening_days # <<>> THEN opening_days ELSE ALL_DAYS_ABBR

transform_closed_on_to_opening_day(closed_on) ==
    IF closed_on.kind = "nan" \/ (closed_on.kind = "text" /\ closed_on.s = <<>>)
    THEN ALL_DAYS_ABBR
    ELSE IF closed_on.kind = "text" /\ Strip(closed_on.s) = OpenAllDays
    THEN ALL_DAYS_ABBR
    ELSE IF closed_on.kind = "text" THEN ALL_DAYS_ABBR          \* JSONDecodeError
    ELSE IF ~closed_on.islist THEN ALL_DAYS_ABBR
    ELSE IF \E i \in 1..Len(closed_on.items) : Unhashable(closed_on.items[i])
    THEN ALL_DAYS_ABBR                                          \* TypeError
    ELSE OpeningDays(ClosedAbbr(closed_on.items))

(***************************************************************************)
(* parse_coordinates                                                       *)
(***************************************************************************)
\* A value of the decoded dict: x is its number (of a JSON number, of a
\* boolean as int, of a text that float() accepts); huge marks an integer
\* beyond the range of float.
Field(t, x, numeric, huge) == [t |-> t, x |-> x, numeric |-> numeric, huge |-> huge]

\* float(v): the exception it raises, "" when it returns v.x
FloatExc(v) ==
    IF v.t = "num" THEN (IF v.huge THEN "OverflowError" ELSE "")
    ELSE IF v.t = "bool" THEN ""
    ELSE IF v.t = "str" THEN (IF v.numeric THEN "" ELSE "ValueError")
    ELSE "TypeError"

\* except (json.JSONDecodeError, TypeError, ValueError, KeyError)
Caught(exc) == exc \in {"JSONDecodeError", "TypeError", "ValueError", "KeyError"}

CoordCell(kind, s, isdict, has_lat, has_lon, lat, lon) ==
    [kind |-> kind, s |-> s, isdict |-> isdict, has_lat |-> has_lat,
     has_lon |-> has_lon, latitude |-> lat, longitude |-> lon]

NoCoords == [none |-> TRUE, latitude |-> 0, longitude |-> 0]
Coords(lat, lon) == [none |-> FALSE, latitude |-> lat, longitude |-> lon]

parse_coordinates(coord) ==
    IF coord.kind = "nan" \/ (coord.kind = "text" /\ coord.s = <<>>)
    THEN Returned(NoCoords)
    ELSE IF coord.kind = "text" THEN Returned(NoCoords)         \* JSONDecodeError
    ELSE IF ~(coord.isdict /\ coord.has_lat /\ coord.has_lon) THEN Returned(NoCoords)
    ELSE LET e1 == FloatExc(coord.latitude)
             e2 == FloatExc(coord.longitude)
         IN IF e1 # "" THEN (IF Caught(e1) THEN Returned(NoCoords) ELSE Raised(e1, NoCoords))
            ELSE IF e2 # "" THEN (IF Caught(e2) THEN Returned(NoCoords) ELSE Raised(e2, NoCoords))
            ELSE Returned(Coords(coord.latitude.x, coord.longitude.x))


(***************************************************************************)
(* The arguments the calls are made with.                                  *)
(***************************************************************************)
HourTexts == {<<"6">>, <<"4">>, <<"8">>, <<"1", "2">>, <<"1", "3">>}
MinuteTexts == {<<>>, <<"3", "0">>, <<"7", "5">>}
AmPmTexts == {<<>>, AM, PM, <<"P", "M">>}
Gaps == {<<>>, <<" ">>}

\* A text written as hour[:minute] [am|pm] - hour[:minute] [am|pm]
TimeForms ==
    [shaped : {TRUE}, sh : HourTexts, sm : MinuteTexts, sa : AmPmTexts,
     eh : HourTexts, em : MinuteTexts, ea : AmPmTexts]

NoForm == [shaped |-> FALSE, sh |-> <<>>, sm |-> <<>>, sa |-> <<>>,
           eh |-> <<>>, em |-> <<>>, ea |-> <<>>]

RenderSide(h, m, a, gap) ==
    h \o (IF m # <<>> THEN <<":">> \o m ELSE <<>>) \o (IF a # <<>> THEN gap \o a ELSE <<>>)

\* gap: the blank before a meridiem; dash: the blank on each side of the dash
Render(f, gap, dash) ==
    RenderSide(f.sh, f.sm, f.sa, gap) \o dash \o <<"-">> \o dash
    \o RenderSide(f.eh, f.em, f.ea, gap)

OtherTimes ==
    {NaN, Str(<<>>), Str(Marker24Long), Str(Marker24), Str(MarkerClosed),
     Str(<<"a", "b", "c">>), Str(<<"6", " ", "p", "m">>), Str(<<"1", "2", "3", "-", "5", " ", "p", "m">>), Str(<<" ", "6", "-", "7", " ", "p", "m", " ">>), Str(<<"O", "p", "e", "n", " ", "6", "-", "9", " ", "p", "m", " ", "d", "a", "i", "l", "y">>), Str(<<"C", "l", "o", "s", "e", "d", " ", "6", "-", "7", " ", "p", "m">>),
     Str(<<"6", "-", "7", " ", "p", "m", " ", "2", "4", " ", "h", "o", "u", "r", "s">>),
     Str(<<"0", "8", ":", "0", "5", "-", "0", "9">>)}

T610 == Str(<<"6", " ", "p", "m", "-", "1", "0", " ", "p", "m">>)
T711 == Str(<<"7", "-", "1", "1", " ", "p", "m">>)
Funday == <<"F", "u", "n", "d", "a", "y">>
Five == PyVal("num", <<"5">>, 0)
TwoTexts == PyVal("list", <<>>, 2)

NotADict ==
    [isdict |-> FALSE, has_day |-> FALSE, has_times |-> FALSE, day |-> Null,
     times_islist |-> FALSE, times |-> <<>>]
MissingTimes == [DayEntry(Str(Monday), <<>>) EXCEPT !.has_times = FALSE]
MissingDay == [DayEntry(Null, <<T610>>) EXCEPT !.has_day = FALSE]
TimesNotAList == [DayEntry(Str(Monday), <<>>) EXCEPT !.times_islist = FALSE]

\* entries the guards of lines 150-157 skip
MalformedEntries ==
    {NotADict, MissingTimes, MissingDay, TimesNotAList, DayEntry(Str(Monday), <<>>)}

\* entries with a day and a non-empty list of times
DayEntries ==
    {DayEntry(Str(Monday), <<T610>>),
     DayEntry(Str(Monday), <<T711, T610>>),
     DayEntry(Str(Tuesday), <<T610>>),
     DayEntry(Str(Sunday), <<T711>>),
     DayEntry(Str(Wednesday), <<Str(Marker24Long)>>),
     DayEntry(Str(Tuesday), <<Str(MarkerClosed)>>),
     DayEntry(Str(Funday), <<T610>>),
     DayEntry(Five, <<T610>>),
     DayEntry(Str(Monday), <<Five>>),
     DayEntry(Str(Monday), <<TwoTexts>>)}

DayLists(n) == UNION {[1..k -> DayEntries] : k \in 0..n}

\* decoded lists of up to MaxEntries entries, at most one of them malformed
\* and that one first or last
HoursLists ==
    DayLists(MaxEntries)
    \cup {<<bad>> \o q : bad \in MalformedEntries, q \in DayLists(MaxEntries - 1)}
    \cup {q \o <<bad>> : bad \in MalformedEntries, q \in DayLists(MaxEntries - 1)}

HoursCells ==
    {HoursCell("nan", <<>>, FALSE, <<>>), HoursCell("text", <<>>, FALSE, <<>>),
     HoursCell("text", <<"[", "]">>, FALSE, <<>>),
     HoursCell("text", <<"a", "b", "c">>, FALSE, <<>>),
     HoursCell("json", <<>>, FALSE, <<>>)}
    \cup {HoursCell("json", <<>>, TRUE, items) : items \in HoursLists}

\* the day names of a set, in the order of the week
RECURSIVE NamesOf(_, _)
NamesOf(S, i) ==
    IF i > Len(ALL_DAYS) THEN <<>>
    ELSE (IF ALL_DAYS[i] \in S THEN <<Str(ALL_DAYS[i])>> ELSE <<>>) \o NamesOf(S, i + 1)

Reverse(q) == [i \in 1..Len(q) |-> q[Len(q) + 1 - i]]

ExtraItems ==
    {Str(Monday), Str(Funday), Str(<<"m", "o", "n", "d", "a", "y">>), Five, Null, PyVal("list", <<>>, 1)}

ExtraLists == UNION {[1..n -> ExtraItems] : n \in 0..MaxExtra}

ClosedLists ==
    {x \o NamesOf(S, 1) : x \in ExtraLists, S \in SUBSET {ALL_DAYS[i] : i \in 1..7}}
    \cup {x \o Reverse(NamesOf(S, 1)) :
             x \in ExtraLists, S \in SUBSET {ALL_DAYS[i] : i \in 1..7}}

ClosedCells ==
    {ClosedCell("nan", <<>>, FALSE, <<>>), ClosedCell("text", <<>>, FALSE, <<>>),
     ClosedCell("text", OpenAllDays, FALSE, <<>>),
     ClosedCell("text", <<" ">> \o OpenAllDays \o <<" ">>, FALSE, <<>>),
     ClosedCell("text", <<"a", "b", "c">>, FALSE, <<>>),
     ClosedCell("json", <<>>, FALSE, <<>>)}
    \cup {ClosedCell("json", <<>>, TRUE, items) : items \in ClosedLists}

Fields ==
    {Field("num", 5, TRUE, FALSE), Field("num", 115, TRUE, FALSE),
     Field("num", 0, TRUE, TRUE), Field("bool", 1, TRUE, FALSE),
     Field("null", 0, FALSE, FALSE), Field("str", 5, TRUE, FALSE),
     Field("str", 0, FALSE, FALSE), Field("list", 0, FALSE, FALSE),
     Field("obj", 0, FALSE, FALSE)}

NoField == Field("null", 0, FALSE, FALSE)

CoordCells ==
    {CoordCell("nan", <<>>, FALSE, FALSE, FALSE, NoField, NoField),
     CoordCell("text", <<>>, FALSE, FALSE, FALSE, NoField, NoField),
     CoordCell("text", <<"a", "b", "c">>, FALSE, FALSE, FALSE, NoField, NoField),
     CoordCell("json", <<>>, FALSE, FALSE, FALSE, NoField, NoField),
     CoordCell("json", <<>>, TRUE, FALSE, FALSE, NoField, NoField)}
    \cup {CoordCell("json", <<>>, TRUE, TRUE, FALSE, lat, NoField) : lat \in Fields}
    \cup {CoordCell("json", <<>>, TRUE, FALSE, TRUE, NoField, lon) : lon \in Fields}
    \cup {CoordCell("json", <<>>, TRUE, TRUE, TRUE, lat, lon) : lat \in Fields, lon \in Fields}

(***************************************************************************)
(* The calls.  Each specification starts with the arguments of one         *)
(* function bound and runs its body.                                       *)
(***************************************************************************)
InitQuotes ==
    /\ fn = "clean_quotes" /\ pc = "call"
    /\ text \in {<<c>> : c \in QuoteCells}
    /\ time_str = NaN /\ time_form = NoForm /\ time_obj = Returned(NoTime)
    /\ hours_str = HoursCell("nan", <<>>, FALSE, <<>>) /\ schedule = Returned(<<>>)
    /\ closed_on_str = ClosedCell("nan", <<>>, FALSE, <<>>) /\ opening_day = <<>>
    /\ coord_str = CoordCell("nan", <<>>, FALSE, FALSE, FALSE, NoField, NoField)
    /\ coords = Returned(NoCoords)

\* clean_quotes applied to the text, or to what the previous call returned
CleanQuotes ==
    /\ fn = "clean_quotes" /\ Len(text) <= MaxCalls
    /\ text' = Append(text, clean_quotes(text[Len(text)]))
    /\ pc' = "done"
    /\ UNCHANGED <<fn, time_str, time_form, time_obj, hours_str, schedule,
                   closed_on_str, opening_day, coord_str, coords>>

InitTime ==
    /\ fn = "parse_time_range" /\ pc = "call"
    /\ \/ \E f \in TimeForms, gap \in Gaps, dash \in Gaps :
              time_form = f /\ time_str = Str(Render(f, gap, dash))
       \/ time_form = NoForm /\ time_str \in OtherTimes
    /\ text = <<>> /\ time_obj = Returned(NoTime)
    /\ hours_str = HoursCell("nan", <<>>, FALSE, <<>>) /\ schedule = Returned(<<>>)
    /\ closed_on_str = ClosedCell("nan", <<>>, FALSE, <<>>) /\ opening_day = <<>>
    /\ coord_str = CoordCell("nan", <<>>, FALSE, FALSE, FALSE, NoField, NoField)
    /\ coords = Returned(NoCoords)

ParseTimeRange ==
    /\ fn = "parse_time_range" /\ pc = "call"
    /\ time_obj' = parse_time_range(time_str)
    /\ pc' = "done"
    /\ UNCHANGED <<fn, text, time_str, time_form, hours_str, schedule,
                   closed_on_str, opening_day, coord_str, coords>>

InitHours ==
    /\ fn = "transform_hours_to_schedule" /\ pc = "call"
    /\ hours_str \in HoursCells
    /\ text = <<>> /\ schedule = Returned(<<>>)
    /\ time_str = NaN /\ time_form = NoForm /\ time_obj = Returned(NoTime)
    /\ closed_on_str = ClosedCell("nan", <<>>, FALSE, <<>>) /\ opening_day = <<>>
    /\ coord_str = CoordCell("nan", <<>>, FALSE, FALSE, FALSE, NoField, NoField)
    /\ coords = Returned(NoCoords)

TransformHours ==
    /\ fn = "transform_hours_to_schedule" /\ pc = "call"
    /\ schedule' = transform_hours_to_schedule(hours_str)
    /\ pc' = "done"
    /\ UNCHANGED <<fn, text, time_str, time_form, time_obj, hours_str,
                   closed_on_str, opening_day, coord_str, coords>>

InitClosed ==
    /\ fn = "transform_closed_on_to_opening_day" /\ pc = "call"
    /\ closed_on_str \in ClosedCells
    /\ text = <<>> /\ opening_day = <<>>
    /\ time_str = NaN /\ time_form = NoForm /\ time_obj = Returned(NoTime)
    /\ hours_str = HoursCell("nan", <<>>, FALSE, <<>>) /\ schedule = Returned(<<>>)
    /\ coord_str = CoordCell("nan", <<>>, FALSE, FALSE, FALSE, NoField, NoField)
    /\ coords = Returned(NoCoords)

TransformClosedOn ==
    /\ fn = "transform_closed_on_to_opening_day" /\ pc = "call"
    /\ opening_day' = transform_closed_on_to_opening_day(closed_on_str)
    /\ pc' = "done"
    /\ UNCHANGED <<fn, text, time_str, time_form, time_obj, hours_str, schedule,
                   closed_on_str, coord_str, coords>>

InitCoords ==
    /\ fn = "parse_coordinates" /\ pc = "call"
    /\ coord_str \in CoordCells
    /\ text = <<>> /\ coords = Returned(NoCoords)
    /\ time_str = NaN /\ time_form = NoForm /\ time_obj = Returned(NoTime)
    /\ hours_str = HoursCell("nan", <<>>, FALSE, <<>>) /\ schedule = Returned(<<>>)
    /\ closed_on_str = ClosedCell("nan", <<>>, FALSE, <<>>) /\ opening_day = <<>>

ParseCoordinates ==
    /\ fn = "parse_coordinates" /\ pc = "call"
    /\ coords' = parse_coordinates(coord_str)
    /\ pc' = "done"
    /\ UNCHANGED <<fn, text, time_str, time_form, time_obj, hours_str, schedule,
                   closed_on_str, opening_day, coord_str>>

SpecQuotes == InitQuotes /\ [][CleanQuotes]_vars
SpecTime == InitTime /\ [][ParseTimeRange]_vars
SpecHours == InitHours /\ [][TransformHours]_vars
SpecClosed == InitClosed /\ [][TransformClosedOn]_vars
SpecCoords == InitCoords /\ [][ParseCoordinates]_vars


(***************************************************************************)
(* Claims.                                                                 *)
(***************************************************************************)
HoursDone == fn = "transform_hours_to_schedule" /\ pc = "done"
TimeDone == fn = "parse_time_range" /\ pc = "done"
ClosedDone == fn = "transform_closed_on_to_opening_day" /\ pc = "done"
CoordsDone == fn = "parse_coordinates" /\ pc = "done"

\* C1: transform_hours_to_schedule never raises: whatever the decoded list
\* holds, the call returns a schedule and no exception propagates.
C1_NeverRaises == HoursDone => schedule.exc = ""

\* C2: clean_quotes is idempotent: applied to its own result it returns
\* that result.
C2_Idempotent == Len(text) >= 3 => text[3] = text[2]

IsClock(c) ==
    /\ Len(c) = 5 /\ c[3] = ":"
    /\ \A i \in {1, 2, 4, 5} : IsDigit(c[i])
    /\ IntOf(SubSeq(c, 1, 2)) <= 23
    /\ IntOf(SubSeq(c, 4, 5)) <= 59

\* C3: every interval parse_time_range returns has start and end of the
\* form HH:MM with HH in 00..23 and MM in 00..59.
C3_WellFormedClock ==
    (TimeDone /\ time_obj.exc = "" /\ ~time_obj.val.none)
        => IsClock(time_obj.val.start) /\ IsClock(time_obj.val.end)

\* C4: every entry of the returned schedule has a non-empty days list with
\* no abbreviation twice and only abbreviations of the seven weekdays.
C4_DayScheduleInvariant ==
    (HoursDone /\ schedule.exc = "") =>
        \A k \in 1..Len(schedule.val) :
            LET days == schedule.val[k].days IN
            /\ days # <<>>
            /\ \A a, b \in 1..Len(days) : a # b => days[a] # days[b]
            /\ \A a \in 1..Len(days) : days[a] \in {mon, tue, wed, thu, fri, sat, sun}

\* what C5 expects of a decoded list: the days of the week whose name is
\* not in it, all seven when none is left
ComplementOf(items) ==
    LET named(i) == \E j \in 1..Len(items) : items[j] = Str(ALL_DAYS[i])
        idx == SelectSeq(<<1, 2, 3, 4, 5, 6, 7>>, LAMBDA i : ~named(i))
        open == [k \in 1..Len(idx) |-> ALL_DAYS_ABBR[idx[k]]]
    IN IF open = <<>> THEN <<mon, tue, wed, thu, fri, sat, sun>> ELSE open

\* C5: transform_closed_on_to_opening_day returns, for a list, the weekday
\* abbreviations in week order whose day name is not in the list (other
\* entries ignored), and all seven days for a list naming all seven, for
\* 'Open All Days', for an empty or absent value and for anything that is
\* not a list; so the result is never empty and has no duplicate.
C5_Complement ==
    ClosedDone =>
        /\ opening_day =
              (IF closed_on_str.kind = "json" /\ closed_on_str.islist
               THEN ComplementOf(closed_on_str.items)
               ELSE <<mon, tue, wed, thu, fri, sat, sun>>)
        /\ opening_day # <<>>
        /\ \A a, b \in 1..Len(opening_day) : a # b => opening_day[a] # opening_day[b]

ClockHour(c) == IntOf(SubSeq(c, 1, Len(c) - 3))
ClockMinute(c) == IntOf(SubSeq(c, Len(c) - 1, Len(c)))

\* the rule C6 states for one side
ExpectedHour(hour, meridiem) ==
    IF meridiem = <<"p", "m">> /\ hour # 12 THEN hour + 12
    ELSE IF meridiem = <<"a", "m">> /\ hour = 12 THEN 0
    ELSE hour

\* C6: for a text hour[:minute] [am|pm] - hour[:minute] [am|pm], a start
\* without meridiem takes the end's (never the other way round); then pm with
\* hour other than 12 adds 12, am with hour 12 gives 0, any other hour is
\* unchanged and a missing minute is 0; '6 pm-12 am' gives 18:00 and 00:00,
\* '4:30-8:30 pm' gives 16:30 and 20:30; an end before the start is kept.
C6_MeridiemConversion ==
    (TimeDone /\ time_form.shaped) =>
        LET f == time_form
            ea == Lower(f.ea)
            sa == IF f.sa = <<>> /\ f.ea # <<>> THEN ea ELSE Lower(f.sa)
            r == time_obj.val
        IN /\ time_obj.exc = "" /\ ~r.none /\ r.note = <<>>
           /\ ClockHour(r.start) = ExpectedHour(IntOf(f.sh), sa)
           /\ ClockHour(r.end) = ExpectedHour(IntOf(f.eh), ea)
           /\ ClockMinute(r.start) = (IF f.sm = <<>> THEN 0 ELSE IntOf(f.sm))
           /\ ClockMinute(r.end) = (IF f.em = <<>> THEN 0 ELSE IntOf(f.em))
           /\ r.start[Len(r.start) - 2] = ":" /\ r.end[Len(r.end) - 2] = ":"
           /\ (time_str = Str(<<"6", " ", "p", "m", "-", "1", "2", " ", "a", "m">>)
                  => r.start = <<"1", "8", ":", "0", "0">> /\ r.end = <<"0", "0", ":", "0", "0">>)
           /\ (time_str = Str(<<"4", ":", "3", "0", "-", "8", ":", "3", "0", " ", "p", "m">>)
                  => r.start = <<"1", "6", ":", "3", "0">> /\ r.end = <<"2", "0", ":", "3", "0">>)

\* C6 witness: '4:30-8:30 pm' has been parsed, its start taking the pm of
\* its end.
C6_Witness ==
    /\ TimeDone /\ time_str = Str(<<"4", ":", "3", "0", "-", "8", ":", "3", "0", " ", "p", "m">>)
    /\ time_form.sa = <<>> /\ time_form.ea = <<"p", "m">>
    /\ time_obj.val.start = <<"1", "6", ":", "3", "0">>

NotNumeric(v) ==
    v.t \in {"null", "bool", "list", "obj"} \/ (v.t = "str" /\ ~v.numeric)

\* C7: parse_coordinates never raises, and returns None whenever the text
\* does not parse, the value is not an object, a field is missing or a
\* field's value is not numeric (null, boolean, list, object, non-number
\* text); otherwise both coordinates.
C7_BothOrNothing ==
    CoordsDone =>
        /\ coords.exc = ""
        /\ (\/ coord_str.kind # "json" \/ ~coord_str.isdict
            \/ ~coord_str.has_lat \/ ~coord_str.has_lon
            \/ NotNumeric(coord_str.latitude) \/ NotNumeric(coord_str.longitude))
               => coords.val.none

\* what the first time text of each input entry parses to (None for an
\* entry the loop skips)
FirstTimes(items) ==
    [i \in 1..Len(items) |->
        IF Skipped(items[i]) THEN Returned(NoTime)
        ELSE parse_time_range(items[i].times[1])]

InDays(abbr, entry) == \E a \in 1..Len(entry.days) : entry.days[a] = abbr

Recognized(abbr) == abbr \in {mon, tue, wed, thu, fri, sat, sun}

WeekIndex(abbr) == CHOOSE i \in 0..6 : <<mon, tue, wed, thu, fri, sat, sun>>[i + 1] = abbr

\* C8: days are grouped by equality of their parsed interval: two entries
\* with the same interval share an output entry, no two output entries
\* carry equal intervals, each output entry holds one interval, and the days
\* of an entry are in Monday-first order, unrecognized ones last.
C8_GroupedByInterval ==
    (HoursDone /\ schedule.exc = "") =>
        \A parsed \in {FirstTimes(hours_str.items)} :
        LET in == hours_str.items
            out == schedule.val
            taken == {i \in 1..Len(in) : parsed[i].exc = "" /\ ~parsed[i].val.none}
        IN /\ \A i, j \in taken :
                  parsed[i] = parsed[j]
                      => \E k \in 1..Len(out) :
                             /\ InDays(DayAbbr(in[i].day.s), out[k])
                             /\ InDays(DayAbbr(in[j].day.s), out[k])
                             /\ out[k].times = <<parsed[i].val>>
           /\ \A k, l \in 1..Len(out) : k # l => out[k].times # out[l].times
           /\ \A k \in 1..Len(out) : Len(out[k].times) = 1
           /\ \A k \in 1..Len(out) : \A a, b \in 1..Len(out[k].days) :
                  a < b =>
                      LET x == out[k].days[a]
                          y == out[k].days[b]
                      IN \/ ~Recognized(y)
                         \/ Recognized(x) /\ WeekIndex(x) <= WeekIndex(y)

\* C8 witness: Funday, Tuesday and Monday with the same interval came out as
\* one entry, days mon, tue, fun.
C8_Witness ==
    /\ HoursDone /\ schedule.exc = "" /\ Len(hours_str.items) = 3
    /\ hours_str.items[1].day = Str(Funday) /\ hours_str.items[2].day = Str(Tuesday)
    /\ Len(schedule.val) = 1 /\ schedule.val[1].days = <<mon, tue, <<"f", "u", "n">>>>

HasRecognized(entry) == \E a \in 1..Len(entry.days) : Recognized(entry.days[a])

Earliest(entry) ==
    CHOOSE m \in 0..6 :
        /\ \E a \in 1..Len(entry.days) :
               Recognized(entry.days[a]) /\ WeekIndex(entry.days[a]) = m
        /\ \A a \in 1..Len(entry.days) :
               Recognized(entry.days[a]) => m <= WeekIndex(entry.days[a])

\* C9: the schedule is ordered by each entry's earliest weekday: of two
\* consecutive entries the first's smallest recognized day is not after the
\* second's, and entries without a recognized day come after all others.
C9_OrderedByEarliestDay ==
    (HoursDone /\ schedule.exc = "") =>
        LET out == schedule.val IN
        /\ \A k \in 1..(Len(out) - 1) :
               (HasRecognized(out[k]) /\ HasRecognized(out[k + 1]))
                   => Earliest(out[k]) <= Earliest(out[k + 1])
        /\ \A k, l \in 1..Len(out) :
               (HasRecognized(out[k]) /\ ~HasRecognized(out[l])) => k < l

\* C9 witness: Funday's group was built first and Sunday's second, and the
\* schedule lists Sunday's first.
C9_Witness ==
    /\ HoursDone /\ schedule.exc = "" /\ Len(hours_str.items) >= 2
    /\ hours_str.items[1].day = Str(Funday) /\ hours_str.items[2].day = Str(Sunday)
    /\ Len(schedule.val) = 2
    /\ schedule.val[1].days = <<sun>> /\ schedule.val[2].days = <<<<"f", "u", "n">>>>

\* each of the seven day names at most once, and no other day name
DistinctKnownDays(items) ==
    /\ \A i \in 1..Len(items) :
           (items[i].isdict /\ items[i].has_day) =>
               items[i].day.t = "str" /\ items[i].day.s \in {ALL_DAYS[d] : d \in 1..7}
    /\ \A i, j \in 1..Len(items) :
           (i # j /\ items[i].isdict /\ items[i].has_day
                  /\ items[j].isdict /\ items[j].has_day) => items[i].day # items[j].day

\* C10: when every day name of the input is one of the seven and none
\* occurs twice, every permutation of the input list gives the same
\* schedule: same entries, same order, same days in each.
C10_OrderIndependent ==
    (HoursDone /\ schedule.exc = "" /\ hours_str.islist
               /\ DistinctKnownDays(hours_str.items)) =>
        \A p \in Permutations(1..Len(hours_str.items)) :
            transform_hours_to_schedule(
                [hours_str EXCEPT !.items = [i \in 1..Len(hours_str.items) |->
                                                hours_str.items[p[i]]]]) = schedule

\* C10 witness: Sunday, Tuesday, Monday in that order, Tuesday and Monday
\* with one interval, came out as mon+tue then sun.
C10_Witness ==
    /\ HoursDone /\ schedule.exc = "" /\ Len(hours_str.items) = 3
    /\ DistinctKnownDays(hours_str.items)
    /\ hours_str.items[1].day = Str(Sunday) /\ hours_str.items[2].day = Str(Tuesday)
    /\ Len(schedule.val) = 2
    /\ schedule.val[1].days = <<mon, tue>> /\ schedule.val[2].days = <<sun>>

====
